---- MODULE Spec2Model ----
(***************************************************************************)
(* Model of the product catalog of boilerplate/python/services/            *)
(* product_service.py (ProductService, _matches, _sort_key).               *)
(*                                                                         *)
(* Text values of the program (name, brand, network, description, the      *)
(* highlights, the query q) are sequences of one-character strings, so     *)
(* that str.lower(), " ".join() and the substring test are computed.       *)
(* SKUs, kinds and exception class names are atoms (TLA+ strings).         *)
(* An Optional value is a sequence of length at most one: <<>> is None.    *)
(***************************************************************************)
EXTENDS Integers, Sequences, FiniteSets, TLC

\* ------------------------------------------------------------------ bounds

\* Longest batch handed to upsert_many.
MaxBatch == 2

\* Longest seed of the catalogs the queries are run on.
MaxSeed == 3

\* Longest highlights list a caller grows a returned record to.
MaxHighlights == 2

\* Largest quantity add raises a cart entry to.
MaxQty == 2

\* ------------------------------------------------------------------ text

None == <<>>

Some(v) == <<v>>

\* str.lower() on one character.
LowerChar(c) ==
  CASE c = "A" -> "a"
    [] c = "B" -> "b"
    [] c = "N" -> "n"
    [] c = "Q" -> "q"
    [] OTHER -> c

\* str.lower()
Lower(s) == [i \in 1..Len(s) |-> LowerChar(s[i])]

\* Code point order of the characters the model uses (ASCII).
Ord(c) ==
  CASE c = " " -> 32
    [] c = "A" -> 65
    [] c = "B" -> 66
    [] c = "N" -> 78
    [] c = "Q" -> 81
    [] c = "a" -> 97
    [] c = "b" -> 98
    [] c = "h" -> 104
    [] c = "n" -> 110
    [] c = "q" -> 113
    [] c = "x" -> 120
    [] c = "z" -> 122

\* `needle in hay` for str
Contains(needle, hay) ==
  \E i \in 0..(Len(hay) - Len(needle)) :
    SubSeq(hay, i + 1, i + Len(needle)) = needle

RECURSIVE Join(_)
\* " ".join(parts)
Join(parts) ==
  IF parts = <<>> THEN <<>>
  ELSE IF Len(parts) = 1 THEN parts[1]
  ELSE parts[1] \o <<" ">> \o Join(Tail(parts))

\* ------------------------------------------------------------------ products

SKUs == {"a", "b"}

PhoneFields ==
  {"sku", "kind", "name", "brand", "upfront_price", "description",
   "highlights", "active"}

PlanFields ==
  {"sku", "kind", "name", "network", "monthly_fee", "description",
   "highlights", "active"}

\* Fields a payload must carry: every field of the variant but the plan's
\* optional network.
PhoneRequired == PhoneFields

PlanRequired == PlanFields \ {"network"}

\* PhoneProduct.model_validate(data): <<record>> or None (ValidationError).
\* Fields the variant does not have are dropped.
ValidatePhone(data) ==
  IF PhoneRequired \subseteq DOMAIN data /\ data["upfront_price"] >= 0
  THEN Some([f \in PhoneFields |-> data[f]])
  ELSE None

\* PlanProduct.model_validate(data): an absent network becomes None.
ValidatePlan(data) ==
  IF PlanRequired \subseteq DOMAIN data /\ data["monthly_fee"] >= 0
  THEN Some([f \in PlanFields |->
               IF f \in DOMAIN data THEN data[f] ELSE None])
  ELSE None

\* The validation gate of the spec: a record has passed it iff validating
\* its own dump returns it.
IsValid(prod) ==
  /\ "kind" \in DOMAIN prod
  /\ prod["kind"] \in {"phone", "plan"}
  /\ IF prod["kind"] = "phone"
     THEN ValidatePhone(prod) = Some(prod)
     ELSE ValidatePlan(prod) = Some(prod)

\* payload.get("kind") and the choice of the model class:
\* "phone", "plan", or "none" (model is None).
ModelOf(data) ==
  IF "kind" \in DOMAIN data /\ data["kind"] \in {"phone", "plan"}
  THEN data["kind"]
  ELSE "none"

\* model.model_validate(data) for the chosen model class.
ModelValidate(model, data) ==
  IF model = "phone" THEN ValidatePhone(data) ELSE ValidatePlan(data)

\* data = existing.model_dump(); data.update(updates or {})
Merge(data, updates) ==
  [f \in DOMAIN data \cup DOMAIN updates |->
     IF f \in DOMAIN updates THEN updates[f] ELSE data[f]]

\* ------------------------------------------------------------------ catalog
\* self._catalog is a dict: a sequence of entries in insertion order with
\* pairwise distinct keys.

Keys(cat) == {cat[i].key : i \in 1..Len(cat)}

\* sku in self._catalog
Has(cat, k) == k \in Keys(cat)

IndexOf(cat, k) == CHOOSE i \in 1..Len(cat) : cat[i].key = k

\* self._catalog.get(sku): <<record>> or None
Lookup(cat, k) ==
  IF Has(cat, k) THEN Some(cat[IndexOf(cat, k)].val) ELSE None

\* self._catalog[k] = v: an existing key keeps its position.
Put(cat, k, v) ==
  IF Has(cat, k)
  THEN [cat EXCEPT ![IndexOf(cat, k)] = [key |-> k, val |-> v]]
  ELSE Append(cat, [key |-> k, val |-> v])

\* A delete that returns without removing the entry.
DelKeep(cat, k) == cat

\* del self._catalog[k]
Del(cat, k) ==
  LET i == IndexOf(cat, k)
  IN SubSeq(cat, 1, i - 1) \o SubSeq(cat, i + 1, Len(cat))

\* list(self._catalog.values())
Values(cat) == [i \in 1..Len(cat) |-> cat[i].val]

\* ------------------------------------------------------------------ query engine

\* isinstance(prod, PhoneProduct) / isinstance(prod, PlanProduct)
IsPhone(prod) == DOMAIN prod = PhoneFields

IsPlan(prod) == DOMAIN prod = PlanFields

\* Truthiness of an Optional[str]: None and "" are falsy.
Truthy(opt) == opt # None /\ opt[1] # <<>>

\* The haystack of the free-text query.
Hay(prod) ==
  Lower(Join(<<
    prod["name"],
    IF IsPhone(prod) THEN prod["brand"] ELSE <<>>,
    IF IsPlan(prod) /\ prod["network"] # None THEN prod["network"][1] ELSE <<>>,
    prod["description"],
    Join(prod["highlights"])
  >>))

\* _matches without its first test.
MatchesNoActive(prod, q, kind, brand, network, min_upfront, max_upfront) ==
  /\ ~(kind # None /\ prod["kind"] # kind[1])
  /\ IsPhone(prod) =>
       /\ ~(Truthy(brand) /\ Lower(prod["brand"]) # Lower(brand[1]))
       /\ ~(min_upfront # None /\ prod["upfront_price"] < min_upfront[1])
       /\ ~(max_upfront # None /\ prod["upfront_price"] > max_upfront[1])
  /\ IsPlan(prod) =>
       ~(/\ Truthy(network)
         /\ Truthy(prod["network"])
         /\ Lower(prod["network"][1]) # Lower(network[1]))
  /\ Truthy(q) => Contains(Lower(q[1]), Hay(prod))

\* _matches
Matches(prod, q, kind, brand, network, min_upfront, max_upfront) ==
  /\ prod["active"]
  /\ ~(kind # None /\ prod["kind"] # kind[1])
  /\ IsPhone(prod) =>
       /\ ~(Truthy(brand) /\ Lower(prod["brand"]) # Lower(brand[1]))
       /\ ~(min_upfront # None /\ prod["upfront_price"] < min_upfront[1])
       /\ ~(max_upfront # None /\ prod["upfront_price"] > max_upfront[1])
  /\ IsPlan(prod) =>
       ~(/\ Truthy(network)
         /\ Truthy(prod["network"])
         /\ Lower(prod["network"][1]) # Lower(network[1]))
  /\ Truthy(q) => Contains(Lower(q[1]), Hay(prod))

\* Sort keys are integer sequences compared as Python compares str (by code
\* point, a proper prefix first) and float: a number v is <<0, v>> and
\* float("inf") is <<1, 0>>.
Inf == <<1, 0>>

NameKey(prod) == [i \in 1..Len(prod["name"]) |-> Ord(Lower(prod["name"])[i])]

\* _sort_key(prod, key); a sort token is [dash, rest]: the string
\* ("-" if dash else "") + rest.
SortKey(prod, key) ==
  IF key.rest = "name" THEN NameKey(prod)
  ELSE IF key.rest = "upfront_price"
  THEN (IF IsPhone(prod) THEN <<0, prod["upfront_price"]>> ELSE Inf)
  ELSE IF key.rest = "monthly_fee"
  THEN (IF IsPlan(prod) THEN <<0, prod["monthly_fee"]>> ELSE Inf)
  ELSE NameKey(prod)

RECURSIVE LexLess(_, _)
LexLess(x, y) ==
  IF y = <<>> THEN FALSE
  ELSE IF x = <<>> THEN TRUE
  ELSE IF x[1] # y[1] THEN x[1] < y[1]
  ELSE LexLess(Tail(x), Tail(y))

\* As Before, with equal keys going before as well.
BeforeOrEqual(x, y, key, reverse) ==
  IF reverse THEN ~LexLess(SortKey(x, key), SortKey(y, key))
  ELSE ~LexLess(SortKey(y, key), SortKey(x, key))

\* x goes before y in the order list.sort(reverse=reverse) produces.
Before(x, y, key, reverse) ==
  IF reverse THEN LexLess(SortKey(y, key), SortKey(x, key))
  ELSE LexLess(SortKey(x, key), SortKey(y, key))

RECURSIVE Insert(_, _, _, _)
\* x placed behind every element of the sorted list that does not go after it.
Insert(sorted, x, key, reverse) ==
  IF sorted = <<>> THEN <<x>>
  ELSE IF Before(x, sorted[1], key, reverse) THEN <<x>> \o sorted
  ELSE <<sorted[1]>> \o Insert(Tail(sorted), x, key, reverse)

RECURSIVE SortItems(_, _, _)
\* items.sort(key=..., reverse=reverse): stable in both directions.
SortItems(items, key, reverse) ==
  IF items = <<>> THEN <<>>
  ELSE Insert(SortItems(SubSeq(items, 1, Len(items) - 1), key, reverse),
              items[Len(items)], key, reverse)

\* [p for p in self._catalog.values() if _matches(p, ...)]
RECURSIVE Filter(_, _)
Filter(vals, a) ==
  IF vals = <<>> THEN <<>>
  ELSE (IF Matches(vals[1], a.q, a.kind, a.brand, a.network,
                   a.min_upfront, a.max_upfront)
        THEN <<vals[1]>> ELSE <<>>) \o Filter(Tail(vals), a)

Max(x, y) == IF x >= y THEN x ELSE y

Min(x, y) == IF x <= y THEN x ELSE y

\* As Slice, with the element at index end taken as well.
SliceInclusiveEnd(items, start, end) ==
  SubSeq(items, start + 1, Min(end + 1, Len(items)))

\* items[start:end] for 0 <= start <= end
Slice(items, start, end) == SubSeq(items, start + 1, Min(end, Len(items)))

\* ProductService.list: [items, total]
ListResult(cat, a) ==
  LET items == SortItems(Filter(Values(cat), a), a.sort, a.sort.dash)
      start == Max(0, (a.page - 1) * a.page_size)
  IN [items |-> Slice(items, start, start + a.page_size),
      total |-> Len(items)]

\* ------------------------------------------------------------------ inputs

\* Payloads handed to create and upsert_many: four valid ones and one for
\* each way validation fails.
PhoneA ==
  [sku |-> "a", kind |-> "phone", name |-> <<"A", "x">>, brand |-> <<"Q">>,
   upfront_price |-> 5, description |-> <<>>, highlights |-> <<>>,
   active |-> TRUE]

PhoneB ==
  [sku |-> "b", kind |-> "phone", name |-> <<"a", "x">>, brand |-> <<"q">>,
   upfront_price |-> 0, description |-> <<"z">>, highlights |-> << <<"h">> >>,
   active |-> TRUE]

PlanA ==
  [sku |-> "a", kind |-> "plan", name |-> <<"B">>, network |-> Some(<<"N">>),
   monthly_fee |-> 2, description |-> <<>>, highlights |-> <<>>,
   active |-> TRUE]

PlanB ==
  [sku |-> "b", kind |-> "plan", name |-> <<"b">>, monthly_fee |-> 0,
   description |-> <<"q">>, highlights |-> <<>>, active |-> TRUE]

\* out-of-range value
NegPhone == [PhoneB EXCEPT !["upfront_price"] = -1]

\* missing required field
NoNamePlan ==
  [sku |-> "a", kind |-> "plan", monthly_fee |-> 2, description |-> <<>>,
   highlights |-> <<>>, active |-> TRUE]

\* unknown kind
BundleKind == [PhoneA EXCEPT !["kind"] = "bundle"]

\* missing kind
NoKind == [sku |-> "b", name |-> <<"b">>]

ValidPayloads == {PhoneA, PhoneB, PlanA, PlanB}

Payloads == ValidPayloads \cup {NegPhone, NoNamePlan, BundleKind, NoKind}

\* Partial updates handed to update.
Updates ==
  { <<>>,
    [active |-> FALSE],
    [sku |-> "b"],
    [kind |-> "plan", monthly_fee |-> 2],
    [upfront_price |-> -1],
    [kind |-> "bundle"] }

\* Batches handed to upsert_many.
BatchPayloads == {PhoneA, PlanB, NegPhone, BundleKind}

RECURSIVE SeqsUpTo(_, _)
SeqsUpTo(S, n) ==
  IF n = 0 THEN {<<>>}
  ELSE LET shorter == SeqsUpTo(S, n - 1)
       IN shorter \cup {Append(b, x) : b \in shorter, x \in S}

Batches == SeqsUpTo(BatchPayloads, MaxBatch)

\* A record as the validation gate builds it from a valid payload.
RecOf(payload) == ModelValidate(ModelOf(payload), payload)[1]

\* A PhoneProduct instance that did not go through validation
\* (model_construct, or a field assigned after construction).
RawNegPhone == [k \in PhoneFields |-> NegPhone[k]]

\* Seeds handed to the constructor.
Seeds ==
  { <<>>,
    <<RecOf(PhoneA), RecOf(PlanB)>>,
    <<RawNegPhone>> }

NoFilter ==
  [q |-> None, kind |-> None, brand |-> None, network |-> None,
   min_upfront |-> None, max_upfront |-> None]

SortTokens ==
  [dash : BOOLEAN, rest : {"name", "upfront_price", "monthly_fee", "bogus"}]

ByName == [dash |-> FALSE, rest |-> "name"]

\* Filter combinations: each criterion absent or set.
Filters ==
  [q : {None, Some(<<"Q">>)},
   kind : {None, Some("phone")},
   brand : {None, Some(<<"q">>)},
   network : {None, Some(<<"n">>)},
   min_upfront : {None, Some(1)},
   max_upfront : {None, Some(3)}]

Pages == {0, 1, 2, 3}

PageSizes == {1, 2}

WithPaging(f, sort, page, page_size) ==
  [q |-> f.q, kind |-> f.kind, brand |-> f.brand, network |-> f.network,
   min_upfront |-> f.min_upfront, max_upfront |-> f.max_upfront,
   sort |-> sort, page |-> page, page_size |-> page_size]

\* Arguments of list: every filter combination on the first page, and every
\* sort token and page window without filters.
ListArgs ==
  {WithPaging(f, ByName, 1, 2) : f \in Filters}
  \cup {WithPaging(NoFilter, s, pg, ps) :
          s \in SortTokens, pg \in Pages, ps \in PageSizes}

\* ------------------------------------------------------------------ state

Threads == {"t1", "t2"}

VARIABLES
  catalog,    \* self._catalog
  res,        \* the last completed call: its operation, argument and outcome
  written,    \* history: per SKU, the record last written for it, or None
  lock,       \* self._lock: the thread holding it, or "free"
  th,         \* per thread: its position in the call it is making, its locals
  committed,  \* history: the catalog when the lock was last released
  base,       \* history: the catalog when the first concurrent call began
  carts       \* InMemoryCartStore.carts: per session, (sku, kind) -> qty

vars == <<catalog, res, written, lock, th, committed, base, carts>>

RECURSIVE FromSeed(_, _)
\* __init__: for p in seed: self._catalog[p.sku] = p
FromSeed(cat, seed) ==
  IF seed = <<>> THEN cat
  ELSE FromSeed(Put(cat, seed[1]["sku"], seed[1]), Tail(seed))

Idle == [pc |-> "idle"]

Init ==
  /\ \E seed \in Seeds : catalog = FromSeed(<<>>, seed)
  /\ res = [op |-> "init", exc |-> "none", cond |-> "none"]
  /\ written = [k \in SKUs |-> Lookup(catalog, k)]
  /\ lock = "free"
  /\ th = [t \in Threads |-> Idle]
  /\ committed = catalog
  /\ base = <<>>
  /\ carts = <<>>

\* ------------------------------------------------------------------ handlers
\* The outcome of a whole call on catalog cat: the catalog it leaves, the
\* exception class it raises ("none": it returns), the failure condition of
\* the error taxonomy the raise stands for, the value returned, and the log
\* of the writes it made (key, and <<record>> or None for a removal).

Return(cat, out, log) ==
  [cat |-> cat, exc |-> "none", cond |-> "none", out |-> out, log |-> log]

Raise(cat, exc, cond, log) ==
  [cat |-> cat, exc |-> exc, cond |-> cond, log |-> log]

\* ProductService.get
GetOutcome(cat, sku) ==
  LET prod == Lookup(cat, sku)
  IN IF prod = None
     THEN Raise(cat, "KeyError", "NotFound", <<>>)
     ELSE Return(cat, prod[1], <<>>)

\* ProductService.create
CreateOutcome(cat, payload) ==
  LET model == ModelOf(payload)
  IN IF model = "none"
     THEN Raise(cat, "ValueError", "InvalidShape", <<>>)
     ELSE LET v == ModelValidate(model, payload)
          IN IF v = None
             THEN Raise(cat, "ValidationError", "InvalidShape", <<>>)
             ELSE IF Has(cat, v[1]["sku"])
             THEN Raise(cat, "ValueError", "DuplicateKey", <<>>)
             ELSE Return(Put(cat, v[1]["sku"], v[1]), v[1],
                         << <<v[1]["sku"], v>> >>)

\* ProductService.update
UpdateOutcome(cat, sku, updates) ==
  LET existing == Lookup(cat, sku)
  IN IF existing = None
     THEN Raise(cat, "KeyError", "NotFound", <<>>)
     ELSE LET data == Merge(existing[1], updates)
              model == ModelOf(data)
          IN IF model = "none"
             THEN Raise(cat, "ValueError", "InvalidShape", <<>>)
             ELSE LET v == ModelValidate(model, data)
                  IN IF v = None
                     THEN Raise(cat, "ValidationError", "InvalidShape", <<>>)
                     ELSE Return(Put(cat, sku, v[1]), v[1], << <<sku, v>> >>)

RECURSIVE UpsertFrom(_, _, _, _)
\* The loop of upsert_many from item i on, count items written so far.
UpsertFrom(cat, items, count, log) ==
  IF items = <<>> THEN Return(cat, count, log)
  ELSE LET it == items[1]
           model == ModelOf(it)
       IN IF model = "none"
          THEN UpsertFrom(cat, Tail(items), count, log)
          ELSE LET v == ModelValidate(model, it)
               IN IF v = None
                  THEN Raise(cat, "ValidationError", "InvalidShape", log)
                  ELSE UpsertFrom(Put(cat, v[1]["sku"], v[1]), Tail(items),
                                  count + 1,
                                  Append(log, <<v[1]["sku"], v>>))

\* ProductService.upsert_many
UpsertManyOutcome(cat, items) == UpsertFrom(cat, items, 0, <<>>)

\* ProductService.delete
DeleteOutcome(cat, sku) ==
  IF ~Has(cat, sku)
  THEN Raise(cat, "KeyError", "NotFound", <<>>)
  ELSE Return(Del(cat, sku), None, << <<sku, None>> >>)

\* ProductService.count
CountOutcome(cat) == Return(cat, Len(cat), <<>>)

\* ProductService.list
ListOutcome(cat, a) == Return(cat, ListResult(cat, a), <<>>)

RECURSIVE Logged(_, _)
\* The history of last writes after the writes of log.
Logged(w, log) ==
  IF log = <<>> THEN w
  ELSE Logged([w EXCEPT ![log[1][1]] = log[1][2]], Tail(log))

\* One whole call by a single caller.
Call(op, arg, o) ==
  /\ catalog' = o.cat
  /\ res' = [op |-> op, arg |-> arg, exc |-> o.exc, cond |-> o.cond,
             out |-> IF o.exc = "none" THEN o.out ELSE None]
  /\ written' = Logged(written, o.log)
  /\ committed' = o.cat
  /\ UNCHANGED <<lock, th, base, carts>>

Get == \E sku \in SKUs : Call("get", sku, GetOutcome(catalog, sku))

Create == \E p \in Payloads : Call("create", p, CreateOutcome(catalog, p))

Update ==
  \E sku \in SKUs, u \in Updates :
    Call("update", <<sku, u>>, UpdateOutcome(catalog, sku, u))

UpsertMany ==
  \E items \in Batches :
    Call("upsert_many", items, UpsertManyOutcome(catalog, items))

Delete == \E sku \in SKUs : Call("delete", sku, DeleteOutcome(catalog, sku))

Count == Call("count", None, CountOutcome(catalog))

List == \E a \in ListArgs : Call("list", a, ListOutcome(catalog, a))

Next == Get \/ Create \/ Update \/ UpsertMany \/ Delete \/ Count \/ List

Spec == Init /\ [][Next]_vars

\* ------------------------------------------------------------------ threads
\* Concurrent callers: every thread makes one call, in the steps between
\* which the interpreter can switch threads. A call is "idle" before it
\* begins, at "acquire" it waits for `with self._lock`, then it runs the
\* body under the lock, and it is "done" when it has returned or raised.

\* A third SKU, so that two creates of absent SKUs meet a non-empty catalog.
PlanC == [PlanA EXCEPT !["sku"] = "c"]

ConcPayloads == {PhoneA, PlanA, PlanB, PlanC, NegPhone, BundleKind}

ConcSKUs == SKUs \cup {"c"}

ConcUpdates == {[active |-> FALSE], [name |-> <<"B">>], [upfront_price |-> -1]}

ConcBatches == {<<PhoneA, PlanB>>, <<PlanB, NegPhone>>, <<BundleKind, PlanA>>}

ConcListArgs ==
  {WithPaging(NoFilter, ByName, 1, 2),
   WithPaging([NoFilter EXCEPT !.kind = Some("phone")], ByName, 1, 2)}

AllIdle == \A t \in Threads : th[t].pc = "idle"

\* A call begins: th[t] becomes c. The catalog the first call finds is kept.
Begin(t, c) ==
  /\ th[t].pc = "idle"
  /\ th' = [th EXCEPT ![t] = c]
  /\ base' = IF AllIdle THEN catalog ELSE base
  /\ UNCHANGED <<catalog, res, written, lock, committed, carts>>

Done(c, exc, cond, out) ==
  [pc |-> "done", op |-> c.op, arg |-> c.arg, exc |-> exc, cond |-> cond,
   out |-> out]

\* The lock is handed out to every thread that asks.
LockAlways(t) == TRUE

\* self._lock can be acquired by t: no other thread holds it.
LockFree(t) == lock = "free" \/ lock = t

\* with self._lock: (entry)
Acquire(t) ==
  /\ th[t].pc = "acquire"
  /\ LockFree(t)
  /\ lock' = t
  /\ th' = [th EXCEPT ![t].pc = "locked"]
  /\ UNCHANGED <<catalog, res, written, committed, base, carts>>

\* A step of the body that stays in the with block.
Step(t, c, cat) ==
  /\ th' = [th EXCEPT ![t] = c]
  /\ catalog' = cat
  /\ UNCHANGED <<res, written, lock, committed, base, carts>>

\* The last step of the body: the with block is left, by return or raise.
Leave(t, c, cat) ==
  /\ th' = [th EXCEPT ![t] = c]
  /\ catalog' = cat
  /\ lock' = "free"
  /\ committed' = cat
  /\ UNCHANGED <<res, written, base, carts>>

\* create: kind and model_validate run before the lock is taken.
StartCreate(t) ==
  \E p \in ConcPayloads :
    LET c == [op |-> "create", arg |-> p]
        model == ModelOf(p)
    IN IF model = "none"
       THEN Begin(t, Done(c, "ValueError", "InvalidShape", None))
       ELSE LET v == ModelValidate(model, p)
            IN IF v = None
               THEN Begin(t, Done(c, "ValidationError", "InvalidShape", None))
               ELSE Begin(t, [pc |-> "acquire", op |-> "create", arg |-> p,
                              prod |-> v[1]])

\* create omits the store.
CreateInsertNothing(cat, prod) == cat

\* self._catalog[prod.sku] = prod
CreateInsert(cat, prod) == Put(cat, prod["sku"], prod)

\* create: if prod.sku in self._catalog: raise
CreateCheck(t) ==
  /\ th[t].pc = "locked" /\ th[t].op = "create"
  /\ IF Has(catalog, th[t].prod["sku"])
     THEN Leave(t, Done(th[t], "ValueError", "DuplicateKey", None), catalog)
     ELSE Step(t, [th[t] EXCEPT !.pc = "insert"], catalog)

\* create: the insert and the return
CreateStore(t) ==
  /\ th[t].pc = "insert"
  /\ Leave(t, Done(th[t], "none", "none", th[t].prod),
           CreateInsert(catalog, th[t].prod))

StartUpdate(t) ==
  \E sku \in ConcSKUs, u \in ConcUpdates :
    Begin(t, [pc |-> "acquire", op |-> "update", arg |-> <<sku, u>>])

\* update: the read, the merge and the revalidation
UpdateRead(t) ==
  /\ th[t].pc = "locked" /\ th[t].op = "update"
  /\ LET existing == Lookup(catalog, th[t].arg[1])
     IN IF existing = None
        THEN Leave(t, Done(th[t], "KeyError", "NotFound", None), catalog)
        ELSE LET data == Merge(existing[1], th[t].arg[2])
                 model == ModelOf(data)
             IN IF model = "none"
                THEN Leave(t, Done(th[t], "ValueError", "InvalidShape", None),
                           catalog)
                ELSE LET v == ModelValidate(model, data)
                     IN IF v = None
                        THEN Leave(t, Done(th[t], "ValidationError",
                                           "InvalidShape", None), catalog)
                        ELSE Step(t, [pc |-> "store", op |-> "update",
                                      arg |-> th[t].arg, updated |-> v[1]],
                                  catalog)

\* update: self._catalog[sku] = updated and the return
UpdateStore(t) ==
  /\ th[t].pc = "store"
  /\ Leave(t, Done(th[t], "none", "none", th[t].updated),
           Put(catalog, th[t].arg[1], th[t].updated))

StartUpsertMany(t) ==
  \E items \in ConcBatches :
    Begin(t, [pc |-> "acquire", op |-> "upsert_many", arg |-> items,
              i |-> 1, count |-> 0])

\* upsert_many: one turn of the loop, or the return behind it
UpsertLoop(t) ==
  /\ th[t].pc = "locked" /\ th[t].op = "upsert_many"
  /\ IF th[t].i > Len(th[t].arg)
     THEN Leave(t, Done(th[t], "none", "none", th[t].count), catalog)
     ELSE LET it == th[t].arg[th[t].i]
              model == ModelOf(it)
          IN IF model = "none"
             THEN Step(t, [th[t] EXCEPT !.i = @ + 1], catalog)
             ELSE LET v == ModelValidate(model, it)
                  IN IF v = None
                     THEN Leave(t, Done(th[t], "ValidationError",
                                        "InvalidShape", None), catalog)
                     ELSE Step(t, [th[t] EXCEPT !.i = @ + 1,
                                                !.count = @ + 1],
                               Put(catalog, v[1]["sku"], v[1]))

StartDelete(t) ==
  \E sku \in ConcSKUs :
    Begin(t, [pc |-> "acquire", op |-> "delete", arg |-> sku])

\* delete: if sku not in self._catalog: raise
DeleteCheck(t) ==
  /\ th[t].pc = "locked" /\ th[t].op = "delete"
  /\ IF ~Has(catalog, th[t].arg)
     THEN Leave(t, Done(th[t], "KeyError", "NotFound", None), catalog)
     ELSE Step(t, [th[t] EXCEPT !.pc = "del"], catalog)

\* delete: del self._catalog[sku], which raises KeyError for a key the dict
\* does not hold
DeleteStore(t) ==
  /\ th[t].pc = "del"
  /\ IF Has(catalog, th[t].arg)
     THEN Leave(t, Done(th[t], "none", "none", None), Del(catalog, th[t].arg))
     ELSE Leave(t, Done(th[t], "KeyError", "NotFound", None), catalog)

StartRead(t) ==
  \/ \E sku \in ConcSKUs :
       Begin(t, [pc |-> "acquire", op |-> "get", arg |-> sku])
  \/ \E a \in ConcListArgs :
       Begin(t, [pc |-> "acquire", op |-> "list", arg |-> a])
  \/ Begin(t, [pc |-> "acquire", op |-> "count", arg |-> None])

\* What a reader returns on catalog cat.
ReadOutcome(op, arg, cat) ==
  IF op = "get" THEN GetOutcome(cat, arg)
  ELSE IF op = "list" THEN ListOutcome(cat, arg)
  ELSE CountOutcome(cat)

\* get, list, count: the body under the lock. seen keeps, for the history,
\* the catalog as the last whole call left it when the read ran.
Read(t) ==
  /\ th[t].pc = "locked" /\ th[t].op \in {"get", "list", "count"}
  /\ LET o == ReadOutcome(th[t].op, th[t].arg, catalog)
     IN Leave(t, [pc |-> "done", op |-> th[t].op, arg |-> th[t].arg,
                  exc |-> o.exc, cond |-> o.cond,
                  out |-> IF o.exc = "none" THEN o.out ELSE None,
                  seen |-> committed],
              catalog)

ThreadNext(t) ==
  \/ StartCreate(t) \/ CreateCheck(t) \/ CreateStore(t)
  \/ StartUpdate(t) \/ UpdateRead(t) \/ UpdateStore(t)
  \/ StartUpsertMany(t) \/ UpsertLoop(t)
  \/ StartDelete(t) \/ DeleteCheck(t) \/ DeleteStore(t)
  \/ StartRead(t) \/ Read(t)
  \/ Acquire(t)

NextConc == \E t \in Threads : ThreadNext(t)

SpecConc == Init /\ [][NextConc]_vars

\* ------------------------------------------------------------------ queries
\* list on the catalogs the constructor builds from seeds of validated
\* records: two phones whose names differ only in case, a plan with a
\* network and a plan without one.

PlanD == [PlanB EXCEPT !["sku"] = "d"]

QueryRecords == {RecOf(PhoneA), RecOf(PhoneB), RecOf(PlanC), RecOf(PlanD)}

QuerySeeds == SeqsUpTo(QueryRecords, MaxSeed)

\* Arguments of list: those of ListArgs, and for every sort token the page
\* that holds the whole result.
QueryArgs ==
  ListArgs \cup {WithPaging(NoFilter, s, 1, MaxSeed) : s \in SortTokens}

InitQuery ==
  /\ \E seed \in QuerySeeds : catalog = FromSeed(<<>>, seed)
  /\ res = [op |-> "init", exc |-> "none", cond |-> "none"]
  /\ written = [k \in SKUs |-> Lookup(catalog, k)]
  /\ lock = "free"
  /\ th = [t \in Threads |-> Idle]
  /\ committed = catalog
  /\ base = <<>>
  /\ carts = <<>>

ListQuery == \E a \in QueryArgs : Call("list", a, ListOutcome(catalog, a))

SpecQuery == InitQuery /\ [][ListQuery]_vars

\* ------------------------------------------------------------------ returned records
\* get, create and update return the object the catalog holds, not a copy:
\* what the caller does to the object it was handed happens to the stored
\* record, without the lock.

\* prod.highlights.append(h)
AppendHighlight(prod, h) ==
  [prod EXCEPT !["highlights"] = Append(prod["highlights"], h)]

\* The catalog key of the object the last call returned.
ReturnedKey ==
  IF res.op = "get" THEN res.arg
  ELSE IF res.op = "create" THEN res.out["sku"]
  ELSE IF res.op = "update" THEN res.arg[1]
  ELSE res.arg

\* The caller appends to the highlights of the record the last call returned.
MutateReturned ==
  /\ res.op \in {"get", "create", "update", "mutate"}
  /\ res.exc = "none"
  /\ Len(res.out["highlights"]) < MaxHighlights
  /\ LET prod == AppendHighlight(res.out, <<"m">>)
     IN /\ catalog' = Put(catalog, ReturnedKey, prod)
        /\ res' = [op |-> "mutate", arg |-> ReturnedKey, exc |-> "none",
                   cond |-> "none", out |-> prod]
        /\ committed' = catalog'
  /\ UNCHANGED <<written, lock, th, base, carts>>

NextAlias == Get \/ Create \/ Update \/ Delete \/ MutateReturned

SpecAlias == Init /\ [][NextAlias]_vars

\* ------------------------------------------------------------------ cart
\* cart_service.py. A dict is a sequence of [key, val] entries as for the
\* catalog; a cart SKU is a sequence of characters, so that a bundle SKU is
\* split where the code splits it. Prices are whole numbers, which
\* round(x, 2) leaves as they are.

\* models.CATALOG: phone sku -> {"name", "price"}
CATALOG == <<[key |-> <<"p">>, val |-> [name |-> <<"P">>, price |-> 5]]>>

\* models.PLANS: plan sku -> {"name", "monthly"}
PLANS == <<[key |-> <<"l">>, val |-> [name |-> <<"L">>, monthly |-> 2]]>>

\* The index of the first "|" of sku, 0 if it has none.
BarAt(sku) ==
  IF \E i \in 1..Len(sku) : sku[i] = "|"
  THEN CHOOSE i \in 1..Len(sku) :
         sku[i] = "|" /\ \A j \in 1..(i - 1) : sku[j] # "|"
  ELSE 0

\* sku.split("|", 1)
Split(sku) ==
  IF BarAt(sku) = 0 THEN <<sku>>
  ELSE <<SubSeq(sku, 1, BarAt(sku) - 1), SubSeq(sku, BarAt(sku) + 1, Len(sku))>>

RECURSIVE PriceForItem(_, _)
\* _price_for_item: <<[label, up, mo]>>, or None where it raises KeyError
PriceForItem(sku, kind) ==
  IF kind = "phone"
  THEN LET prod == Lookup(CATALOG, sku)
       IN IF prod = None THEN None
          ELSE Some([label |-> prod[1].name, up |-> prod[1].price, mo |-> 0])
  ELSE IF kind = "plan"
  THEN LET plan == Lookup(PLANS, sku)
       IN IF plan = None THEN None
          ELSE Some([label |-> plan[1].name, up |-> 0, mo |-> plan[1].monthly])
  ELSE IF kind = "bundle"
  THEN LET parts == Split(sku)
       IN IF Len(parts) # 2 THEN None
          ELSE LET phone == PriceForItem(parts[1], "phone")
               IN IF phone = None THEN None
                  ELSE LET plan == PriceForItem(parts[2], "plan")
                       IN IF plan = None THEN None
                          ELSE Some([label |-> phone[1].label \o <<" ", "+", " ">>
                                                 \o plan[1].label,
                                     up |-> phone[1].up, mo |-> plan[1].mo])
  ELSE None

\* InMemoryCartStore.get_cart: self.carts.setdefault(session_id, {})
EnsureCart(cs, sid) == IF Has(cs, sid) THEN cs ELSE Put(cs, sid, <<>>)

GetCart(cs, sid) == Lookup(EnsureCart(cs, sid), sid)[1]

\* cart.get(key, 0)
QtyOf(cart, key) == IF Has(cart, key) THEN Lookup(cart, key)[1] ELSE 0

\* cart.pop(key, None)
Pop(cart, key) == IF Has(cart, key) THEN Del(cart, key) ELSE cart

\* As SetQty, with a quantity of 0 stored like a positive one.
SetQtyKeepZero(cs, sid, sku, kind, qty) ==
  LET cart == GetCart(cs, sid)
      key == <<sku, kind>>
  IN Put(EnsureCart(cs, sid), sid,
         IF qty < 0 THEN Pop(cart, key) ELSE Put(cart, key, qty))

\* InMemoryCartStore.set_qty
SetQty(cs, sid, sku, kind, qty) ==
  LET cart == GetCart(cs, sid)
      key == <<sku, kind>>
  IN Put(EnsureCart(cs, sid), sid,
         IF qty <= 0 THEN Pop(cart, key) ELSE Put(cart, key, qty))

\* InMemoryCartStore.clear
StoreClear(cs, sid) == Put(cs, sid, <<>>)

\* _materialize raises KeyError: an entry it prices is not for sale.
MaterializeRaises(cart) ==
  \E i \in 1..Len(cart) :
    cart[i].val > 0 /\ PriceForItem(cart[i].key[1], cart[i].key[2]) = None

RECURSIVE Lines(_)
\* _materialize: the CartLine of every entry with a positive quantity
Lines(cart) ==
  IF cart = <<>> THEN <<>>
  ELSE LET sku == cart[1].key[1]
           kind == cart[1].key[2]
           qty == cart[1].val
           price == PriceForItem(sku, kind)[1]
       IN (IF qty <= 0 THEN <<>>
           ELSE <<[sku |-> sku, kind |-> kind, qty |-> qty,
                   label |-> price.label,
                   upfront_subtotal |-> price.up * qty,
                   monthly_subtotal |-> price.mo * qty]>>) \o Lines(Tail(cart))

RECURSIVE SumOf(_, _)
SumOf(lines, field) ==
  IF lines = <<>> THEN 0 ELSE lines[1][field] + SumOf(Tail(lines), field)

RECURSIVE ItemCount(_)
\* sum(qty for qty in cart_map.values() if qty > 0)
ItemCount(cart) ==
  IF cart = <<>> THEN 0
  ELSE (IF cart[1].val > 0 THEN cart[1].val ELSE 0) + ItemCount(Tail(cart))

\* CartService._materialize: the CartView
Materialize(cart) ==
  [items |-> Lines(cart),
   totals |-> [upfront_total |-> SumOf(Lines(cart), "upfront_subtotal"),
               monthly_total |-> SumOf(Lines(cart), "monthly_subtotal"),
               item_count |-> ItemCount(cart)]]

\* The outcome of a call that ends in _materialize of session sid's cart,
\* the store being cs by then.
ViewOf(cs, sid) ==
  IF MaterializeRaises(GetCart(cs, sid))
  THEN Raise(EnsureCart(cs, sid), "KeyError", "UnknownItem", <<>>)
  ELSE Return(EnsureCart(cs, sid), Materialize(GetCart(cs, sid)), <<>>)

\* CartService.view
ViewOutcome(cs, sid) == ViewOf(cs, sid)

\* CartService.add
AddOutcome(cs, sid, sku, kind, qty) ==
  IF qty < 1 THEN Raise(cs, "ValueError", "BadQty", <<>>)
  ELSE IF PriceForItem(sku, kind) = None
  THEN Raise(cs, "KeyError", "UnknownItem", <<>>)
  ELSE LET cart == GetCart(cs, sid)
           key == <<sku, kind>>
       IN ViewOf(Put(EnsureCart(cs, sid), sid,
                     Put(cart, key, QtyOf(cart, key) + qty)), sid)

\* CartService.update_qty
UpdateQtyOutcome(cs, sid, sku, kind, qty) ==
  IF qty < 0 THEN Raise(cs, "ValueError", "BadQty", <<>>)
  ELSE IF qty > 0 /\ PriceForItem(sku, kind) = None
  THEN Raise(cs, "KeyError", "UnknownItem", <<>>)
  ELSE ViewOf(SetQty(cs, sid, sku, kind, qty), sid)

\* CartService.remove
RemoveOutcome(cs, sid, sku, kind) == ViewOf(SetQty(cs, sid, sku, kind, 0), sid)

\* CartService.clear
ClearOutcome(cs, sid) == ViewOf(StoreClear(cs, sid), sid)

Sessions == {"s1", "s2"}

\* (sku, kind) handed to the cart: a plan and a bundle that are for sale, an
\* unknown phone, a bundle SKU without "|", a bundle of an unknown plan, and
\* an unknown kind.
CartItems ==
  {<< <<"l">>, "plan" >>, << <<"p", "|", "l">>, "bundle" >>,
   << <<"x">>, "phone" >>, << <<"p", "l">>, "bundle" >>,
   << <<"p", "|", "x">>, "bundle" >>, << <<"l">>, "gift" >>}

Qtys == {-1, 0, 1, 2}

\* One whole call of the cart service for session sid.
CartCall(op, sid, o) ==
  /\ carts' = o.cat
  /\ res' = [op |-> op, arg |-> sid, exc |-> o.exc, cond |-> o.cond,
             out |-> IF o.exc = "none" THEN o.out ELSE None]
  /\ UNCHANGED <<catalog, written, lock, th, committed, base>>

Add ==
  \E sid \in Sessions, it \in CartItems, qty \in Qtys :
    /\ QtyOf(GetCart(carts, sid), it) + qty <= MaxQty
    /\ CartCall("add", sid, AddOutcome(carts, sid, it[1], it[2], qty))

UpdateQty ==
  \E sid \in Sessions, it \in CartItems, qty \in Qtys :
    CartCall("update_qty", sid, UpdateQtyOutcome(carts, sid, it[1], it[2], qty))

Remove ==
  \E sid \in Sessions, it \in CartItems :
    CartCall("remove", sid, RemoveOutcome(carts, sid, it[1], it[2]))

Clear == \E sid \in Sessions : CartCall("clear", sid, ClearOutcome(carts, sid))

View == \E sid \in Sessions : CartCall("view", sid, ViewOutcome(carts, sid))

InitCart ==
  /\ catalog = <<>>
  /\ res = [op |-> "init", exc |-> "none", cond |-> "none"]
  /\ written = [k \in SKUs |-> None]
  /\ lock = "free"
  /\ th = [t \in Threads |-> Idle]
  /\ committed = <<>>
  /\ base = <<>>
  /\ carts = <<>>

NextCart == Add \/ UpdateQty \/ Remove \/ Clear \/ View

SpecCart == InitCart /\ [][NextCart]_vars

\* ------------------------------------------------------------------ properties

InactiveKeys(cat) == {i \in 1..Len(cat) : ~cat[i].val["active"]}

\* The payload passes the validation gate.
IsValidPayload(p) ==
  ModelOf(p) # "none" /\ ModelValidate(ModelOf(p), p) # None

\* C1: get(sku) returns the record most recently written for that SKU by a
\* successful write (the seed, create, update, an item of upsert_many), and
\* fails with NotFound (KeyError) when the SKU was never written or its last
\* write was followed by a successful delete.
C1_GetReturnsLastWrite ==
  res.op = "get" =>
    IF written[res.arg] = None
    THEN res.exc = "KeyError" /\ res.cond = "NotFound"
    ELSE res.exc = "none" /\ res.out = written[res.arg][1]

\* A get that returns a record only an update can have written.
C1_Witness ==
  /\ res.op = "get"
  /\ res.exc = "none"
  /\ ~res.out["active"]
  /\ written[res.arg] = Some(res.out)

\* C2: a call that ends in an error leaves the catalog as it was before the
\* call.
C2_NoPartialMutation ==
  [][res'.exc # "none" => catalog' = catalog]_vars

\* The record upsert_many is to leave under sku: that of the last valid
\* payload of the batch carrying the sku.
LastValid(items, sku) ==
  LET idx == {i \in 1..Len(items) :
                IsValidPayload(items[i]) /\ items[i]["sku"] = sku}
  IN IF idx = {} THEN None
     ELSE Some(RecOf(items[CHOOSE i \in idx : \A j \in idx : j <= i]))

\* C3: upsert_many skips every invalid payload without failing, writes every
\* valid one, and returns the number of valid payloads.
C3_UpsertSkipsInvalid ==
  res.op = "upsert_many" =>
    /\ res.exc = "none"
    /\ res.out = Cardinality({i \in 1..Len(res.arg) : IsValidPayload(res.arg[i])})
    /\ \A sku \in SKUs :
         LastValid(res.arg, sku) # None =>
           Lookup(catalog, sku) = LastValid(res.arg, sku)

\* C4: list never returns an inactive record and does not count one in
\* total, while get on the SKU of an inactive record returns that record.
C4_ListHidesInactive ==
  /\ res.op = "list" =>
       /\ \A i \in 1..Len(res.out.items) : res.out.items[i]["active"]
       /\ res.out.total <= Len(catalog) - Cardinality(InactiveKeys(catalog))
  /\ \A i \in InactiveKeys(catalog) :
       LET o == GetOutcome(catalog, catalog[i].key)
       IN o.exc = "none" /\ o.out = catalog[i].val /\ ~o.out["active"]

\* An unfiltered list over a catalog holding an inactive record beside an
\* active one.
C4_Witness ==
  /\ res.op = "list"
  /\ res.arg = WithPaging(NoFilter, ByName, 1, 2)
  /\ InactiveKeys(catalog) # {}
  /\ res.out.total = 1
  /\ Len(catalog) = 2

\* Every thread has made a create call with a valid payload whose SKU the
\* catalog did not hold when the calls began, no two with the same SKU.
AllCreatedDistinct ==
  /\ \A t \in Threads :
       /\ th[t].pc = "done"
       /\ th[t].op = "create"
       /\ IsValidPayload(th[t].arg)
       /\ ~Has(base, th[t].arg["sku"])
  /\ \A t, u \in Threads : t # u => th[t].arg["sku"] # th[u].arg["sku"]

\* C5: concurrent creates of pairwise distinct, absent SKUs all succeed;
\* afterwards count() is the prior count plus the number of calls and get
\* returns every created record.
C5_ConcurrentCreates ==
  AllCreatedDistinct =>
    /\ \A t \in Threads :
         /\ th[t].exc = "none"
         /\ GetOutcome(catalog, th[t].arg["sku"]).exc = "none"
         /\ GetOutcome(catalog, th[t].arg["sku"]).out = th[t].out
    /\ CountOutcome(catalog).out =
         CountOutcome(base).out + Cardinality(Threads)

\* Two creates of absent SKUs have run against a catalog that held a record.
C5_Witness ==
  /\ AllCreatedDistinct
  /\ Len(base) = 1
  /\ Len(catalog) = 3

\* C6: what a get or list returns is what it returns on the catalog as a
\* whole call of another caller left it: no reader sees the catalog between
\* two steps of a writer.
C6_ReadsSeeWholeCalls ==
  \A t \in Threads :
    (th[t].pc = "done" /\ th[t].op \in {"get", "list"}) =>
      LET o == ReadOutcome(th[t].op, th[t].arg, th[t].seen)
      IN /\ th[t].exc = o.exc
         /\ o.exc = "none" => th[t].out = o.out

\* A list has run after a whole upsert_many of two records and returns both.
C6_Witness ==
  \E t, u \in Threads :
    /\ th[t].pc = "done" /\ th[t].op = "list"
    /\ th[u].pc = "done" /\ th[u].op = "upsert_many" /\ th[u].exc = "none"
    /\ th[u].out = 2
    /\ base = <<>>
    /\ th[t].out.total = 2

\* C7: every key of the catalog maps to a record whose sku is that key.
C7_KeyIsSku ==
  \A i \in 1..Len(catalog) : catalog[i].key = catalog[i].val["sku"]

\* C8: every record the catalog holds passes the validation gate.
C8_StoreHoldsValidated ==
  \A i \in 1..Len(catalog) : IsValid(catalog[i].val)

\* C9: two failures that stand for different conditions of the error
\* taxonomy (NotFound, DuplicateKey, InvalidShape) are different outcomes:
\* they raise different exception classes.
C9_ErrorsDistinguishable ==
  [][(res.exc # "none" /\ res'.exc # "none" /\ res.cond # res'.cond)
       => res.exc # res'.exc]_vars

\* The haystack as the spec words it: name, brand or network, description
\* and the highlights, joined by spaces.
SpecHay(prod) ==
  Lower(Join(<<
    prod["name"],
    IF prod["kind"] = "phone" THEN prod["brand"]
    ELSE IF prod["network"] # None THEN prod["network"][1] ELSE <<>>,
    prod["description"],
    Join(prod["highlights"])
  >>))

\* The filter criteria as the spec defines them. Where the spec leaves the
\* other variant open (brand against a plan, network against a phone) the
\* criterion is taken not to apply.
SpecSatisfies(prod, a) ==
  /\ prod["active"]
  /\ a.kind # None => prod["kind"] = a.kind[1]
  /\ Truthy(a.q) => Contains(Lower(a.q[1]), SpecHay(prod))
  /\ (Truthy(a.brand) /\ prod["kind"] = "phone") =>
       Lower(prod["brand"]) = Lower(a.brand[1])
  /\ (Truthy(a.network) /\ prod["kind"] = "plan") =>
       /\ Truthy(prod["network"])
       /\ Lower(prod["network"][1]) = Lower(a.network[1])
  /\ (a.min_upfront # None \/ a.max_upfront # None) =>
       /\ prod["kind"] = "phone"
       /\ a.min_upfront # None => prod["upfront_price"] >= a.min_upfront[1]
       /\ a.max_upfront # None => prod["upfront_price"] <= a.max_upfront[1]

\* C10: every item list returns satisfies the supplied criteria as the spec
\* defines them, and total is the number of catalog records satisfying them.
C10_ListMeetsCriteria ==
  res.op = "list" =>
    /\ \A i \in 1..Len(res.out.items) : SpecSatisfies(res.out.items[i], res.arg)
    /\ res.out.total =
         Cardinality({i \in 1..Len(catalog) :
                        SpecSatisfies(catalog[i].val, res.arg)})

\* C11: under a non-empty network filter every plan list returns has a
\* network value, equal to the filter up to case; a plan without a network
\* value is not returned.
C11_NetworkFilterOnPlans ==
  (res.op = "list" /\ Truthy(res.arg.network)) =>
    \A i \in 1..Len(res.out.items) :
      LET p == res.out.items[i]
      IN IsPlan(p) =>
           /\ Truthy(p["network"])
           /\ Lower(p["network"][1]) = Lower(res.arg.network[1])

\* C12: when min_upfront or max_upfront is set, list returns no plan: every
\* item is a phone whose upfront price lies within the bounds given.
C12_PriceBoundsExcludePlans ==
  (res.op = "list"
     /\ (res.arg.min_upfront # None \/ res.arg.max_upfront # None)) =>
    \A i \in 1..Len(res.out.items) :
      LET p == res.out.items[i]
      IN /\ IsPhone(p)
         /\ res.arg.min_upfront # None =>
              p["upfront_price"] >= res.arg.min_upfront[1]
         /\ res.arg.max_upfront # None =>
              p["upfront_price"] <= res.arg.max_upfront[1]

Reverse(s) == [i \in 1..Len(s) |-> s[Len(s) + 1 - i]]

\* The call returned the whole filtered and sorted sequence in one page.
WholeListing ==
  /\ res.op = "list"
  /\ res.arg.page = 1
  /\ res.out.total <= res.arg.page_size

DistinctNames(items) ==
  \A i, j \in 1..Len(items) : i # j => NameKey(items[i]) # NameKey(items[j])

\* C13: a whole listing sorted by name is ordered by lowercased name in the
\* direction asked for, records with equal lowercased names keep their
\* catalog order in both directions, and when the names are distinct the
\* listing in the other direction is its reverse.
C13_NameSortStableAndReversible ==
  (WholeListing /\ res.arg.sort.rest = "name") =>
    LET items == res.out.items
        desc == res.arg.sort.dash
        other == ListResult(catalog, [res.arg EXCEPT !.sort.dash = ~desc]).items
    IN /\ \A i, j \in 1..Len(items) :
            i < j =>
              /\ IF desc
                 THEN ~LexLess(NameKey(items[i]), NameKey(items[j]))
                 ELSE ~LexLess(NameKey(items[j]), NameKey(items[i]))
              /\ NameKey(items[i]) = NameKey(items[j]) =>
                   IndexOf(catalog, items[i]["sku"])
                     < IndexOf(catalog, items[j]["sku"])
       /\ DistinctNames(items) => other = Reverse(items)

\* A descending whole listing of three records, two of them with the same
\* lowercased name.
C13_Witness ==
  /\ WholeListing
  /\ res.arg.sort = [dash |-> TRUE, rest |-> "name"]
  /\ Len(res.out.items) = 3
  /\ ~DistinctNames(res.out.items)
  /\ NameKey(res.out.items[1]) # NameKey(res.out.items[3])

\* C14: with a sort token that names no sort field, with or without a
\* leading dash, list orders its result by ascending lowercased name.
C14_UnknownSortAscendingName ==
  (res.op = "list" /\ res.arg.sort.rest = "bogus") =>
    \A i, j \in 1..Len(res.out.items) :
      i < j => ~LexLess(NameKey(res.out.items[j]), NameKey(res.out.items[i]))

\* ceil(total / page_size)
PageCount(total, page_size) == (total + page_size - 1) \div page_size

RECURSIVE PagesUpTo(_, _, _)
\* The items of pages 1..n of the call with arguments a, one after the other.
PagesUpTo(cat, a, n) ==
  IF n = 0 THEN <<>>
  ELSE PagesUpTo(cat, a, n - 1) \o ListResult(cat, [a EXCEPT !.page = n]).items

\* C15: the pages 1..ceil(total/page_size) of a listing, one after the
\* other, are the filtered and sorted sequence: every matching record once,
\* in order, each page of at most page_size items; the page returned is its
\* part of that sequence.
C15_PagesPartitionListing ==
  res.op = "list" =>
    LET a == res.arg
        full == SortItems(Filter(Values(catalog), a), a.sort, a.sort.dash)
        n == PageCount(res.out.total, a.page_size)
        all == PagesUpTo(catalog, a, n)
    IN /\ res.out.total = Len(full)
       /\ all = full
       /\ \A i, j \in 1..Len(all) : i # j => all[i]["sku"] # all[j]["sku"]
       /\ \A p \in 1..n :
            LET page == ListResult(catalog, [a EXCEPT !.page = p]).items
            IN /\ Len(page) <= a.page_size
               /\ Len(page) >= 1
       /\ a.page \in 1..n =>
            res.out.items = SubSeq(full, (a.page - 1) * a.page_size + 1,
                                   Min(a.page * a.page_size, Len(full)))

\* The third and last page of a listing of three records.
C15_Witness ==
  /\ res.op = "list"
  /\ res.out.total = 3
  /\ res.arg.page_size = 1
  /\ res.arg.page = 3
  /\ Len(res.out.items) = 1

\* C16: for a page number outside 1..ceil(total/page_size), below 1 as well
\* as past the end, list returns no items, the full match count as total,
\* and raises nothing.
C16_OutOfRangePageEmpty ==
  (res.op = "list"
     /\ res.arg.page \notin 1..PageCount(res.out.total, res.arg.page_size)) =>
    /\ res.exc = "none"
    /\ res.out.items = <<>>
    /\ res.out.total = Len(Filter(Values(catalog), res.arg))

\* C17: what a caller does to a record it was handed by get, create or
\* update changes nothing a later get returns: get on every SKU has the
\* same outcome after the caller's mutation as before it.
C17_ReturnedRecordsDetached ==
  [][res'.op = "mutate" =>
       \A k \in SKUs :
         LET before == GetOutcome(catalog, k)
             after == GetOutcome(catalog', k)
         IN /\ after.exc = before.exc
            /\ after.exc = "none" => after.out = before.out]_vars

\* Every thread has made a create call with a valid payload, all with the
\* same SKU, which the catalog did not hold when the first call began.
AllCreatedSame ==
  /\ \A t \in Threads :
       /\ th[t].pc = "done"
       /\ th[t].op = "create"
       /\ IsValidPayload(th[t].arg)
       /\ ~Has(base, th[t].arg["sku"])
  /\ \A t, u \in Threads : th[t].arg["sku"] = th[u].arg["sku"]

\* Thread t alone has made a create call with a valid payload whose SKU the
\* catalog held.
CreatedPresent(t) ==
  /\ th[t].pc = "done"
  /\ th[t].op = "create"
  /\ IsValidPayload(th[t].arg)
  /\ Has(base, th[t].arg["sku"])
  /\ \A u \in Threads \ {t} : th[u].pc = "idle"

\* C18: of concurrent creates of one absent SKU exactly one succeeds, the
\* others fail with DuplicateKey, and the stored record is the one the
\* succeeding call made; a create of a present SKU fails with DuplicateKey
\* and leaves the catalog as it was.
C18_OneCreateWins ==
  /\ AllCreatedSame =>
       \E t \in Threads :
         /\ th[t].exc = "none"
         /\ Lookup(catalog, th[t].arg["sku"]) = Some(th[t].out)
         /\ \A u \in Threads \ {t} :
              th[u].exc = "ValueError" /\ th[u].cond = "DuplicateKey"
  /\ \A t \in Threads :
       CreatedPresent(t) =>
         /\ th[t].exc = "ValueError"
         /\ th[t].cond = "DuplicateKey"
         /\ catalog = base

\* Two creates of one absent SKU with different payloads have both ended,
\* against a catalog that held a record.
C18_Witness ==
  /\ AllCreatedSame
  /\ th["t1"].arg # th["t2"].arg
  /\ Len(base) = 1

\* Every thread has made a successful update call, all on the same SKU, each
\* setting fields the record has, no two of them setting the same field.
AllUpdatedDisjoint ==
  /\ \A t \in Threads :
       /\ th[t].pc = "done"
       /\ th[t].op = "update"
       /\ th[t].exc = "none"
       /\ Has(base, th[t].arg[1])
       /\ DOMAIN th[t].arg[2] \subseteq DOMAIN Lookup(base, th[t].arg[1])[1]
  /\ \A t, u \in Threads :
       /\ th[t].arg[1] = th[u].arg[1]
       /\ t # u => DOMAIN th[t].arg[2] \cap DOMAIN th[u].arg[2] = {}

\* C19: after concurrent updates of one SKU that set disjoint fields the
\* stored record has every field as the updates set it, and every other
\* field as it was.
C19_UpdatesBothApplied ==
  AllUpdatedDisjoint =>
    \A t \in Threads :
      LET sku == th[t].arg[1]
          stored == Lookup(catalog, sku)[1]
          prior == Lookup(base, sku)[1]
          set == UNION {DOMAIN th[u].arg[2] : u \in Threads}
      IN /\ \A f \in DOMAIN th[t].arg[2] : stored[f] = th[t].arg[2][f]
         /\ DOMAIN stored = DOMAIN prior
         /\ \A f \in DOMAIN stored \ set : stored[f] = prior[f]

\* Two updates of one SKU, one setting the name and one the active flag,
\* have both succeeded.
C19_Witness ==
  /\ AllUpdatedDisjoint
  /\ DOMAIN th["t1"].arg[2] # DOMAIN th["t2"].arg[2]
  /\ Lookup(catalog, th["t1"].arg[1]) # Lookup(base, th["t1"].arg[1])

CartOps == {"add", "update_qty", "remove", "clear", "view"}

RECURSIVE StoredQty(_)
\* The sum of the quantities a cart holds.
StoredQty(cart) ==
  IF cart = <<>> THEN 0 ELSE cart[1].val + StoredQty(Tail(cart))

\* C20: after every cart call every stored entry has a quantity of at least
\* 1, a call that raised left the store as it was, and the item_count of
\* the view returned is the sum of the quantities stored for the session.
C20_CartQuantitiesPositive ==
  [][res'.op \in CartOps =>
       /\ \A i \in 1..Len(carts') :
            \A j \in 1..Len(carts'[i].val) : carts'[i].val[j].val >= 1
       /\ res'.exc # "none" => carts' = carts
       /\ res'.exc = "none" =>
            res'.out.totals.item_count = StoredQty(Lookup(carts', res'.arg)[1])]_vars

\* An add or update_qty has raised for a session whose cart holds two
\* entries, one of them with a quantity above 1.
C20_Witness ==
  /\ res.op \in {"add", "update_qty"}
  /\ res.exc # "none"
  /\ Has(carts, res.arg)
  /\ Len(Lookup(carts, res.arg)[1]) = 2
  /\ StoredQty(Lookup(carts, res.arg)[1]) > 2

====
